---- MODULE Spec2Model ----
(***************************************************************************)
(* Model of etl_connector.py: the blocklist.de ETL connector.              *)
(*   safe_get            retrying HTTP GET (lines 46-92)                   *)
(*   parse_ip_list       line-oriented parser and validator (95-119)       *)
(*   safe_insert_many    partial-failure-tolerant bulk insert (130-146)    *)
(*   run_lists_connector the sequential orchestrator (149-167)             *)
(* Text is a sequence of one-character strings.  A delay is a rational     *)
(* <<numerator, denominator>> in lowest terms, so that 1.5 ** n is exact.  *)
(***************************************************************************)
EXTENDS Integers, Sequences, FiniteSets, TLC

VARIABLES
    MAX_RETRIES,   \* module constant read from the environment (line 28)
    MONGO_URI,     \* module constant read from the environment (line 25)
    MONGO_DB,      \* module constant read from the environment (line 26)
    pc,            \* position of the single thread of control
    err,           \* the exception that left the last call, or "none"
    attempt,       \* safe_get: local attempt counter
    events,        \* safe_get: GETs issued and sleeps performed by this invocation
    resp,          \* safe_get: the response returned to the caller
    srcLines,      \* the lines the server composed the last 200 body from
    text,          \* parse_ip_list: argument
    service,       \* parse_ip_list: argument
    lines,         \* parse_ip_list: lines of text.splitlines() not yet visited
    docs,          \* parse_ip_list: local list of documents
    now,           \* parse_ip_list: local capture timestamp
    clock,         \* datetime.utcnow()
    batch,         \* safe_insert_many: argument docs
    inserted,      \* safe_insert_many: returned count
    store,         \* documents in the collection
    insertCalls,   \* calls of collection.insert_many and what the store did with them
    epIdx,         \* run_lists_connector: position in LIST_ENDPOINTS.items()
    total,         \* run_lists_connector: local total
    runLog         \* run_lists_connector: calls made and sleeps performed, in order

cfgVars == <<MAX_RETRIES, MONGO_URI, MONGO_DB>>
getVars == <<attempt, events, resp, srcLines>>
parseVars == <<text, service, lines, docs, now>>
insertVars == <<batch, inserted, store, insertCalls>>
runVars == <<epIdx, total, runLog>>
vars == <<cfgVars, pc, err, getVars, parseVars, clock, insertVars, runVars>>

\* everything safe_get leaves alone
GetFrame == UNCHANGED <<cfgVars, parseVars, clock, insertVars, runVars>>

\* line 25: os.getenv gives None when MONGO_URI is unset and "" when it is set
\* to nothing; both are false in `if not MONGO_URI`.  A set value is the
\* scheme and the rest of the string.
NoUri == [scheme |-> "", rest |-> ""]
GoodUri == [scheme |-> "mongodb", rest |-> "localhost:27017"]
NoSchemeUri == [scheme |-> "", rest |-> "localhost:27017"]
\* line 26: the default database name, and names the environment may give
DefaultDb == <<"s", "s", "n", "_", "b", "l", "o", "c", "k", "l", "i", "s", "t">>
EmptyDb == <<>>
SpacedDb == <<"m", "y", " ", "d", "b">>

\* line 123: `not MONGO_URI`
UriAbsent(uri) == uri.scheme = "" /\ uri.rest = ""
\* line 126: MongoClient(uri) parses the string and raises InvalidURI unless it
\* begins with mongodb:// or mongodb+srv:// and names a host
UriAccepted(uri) == uri.scheme \in {"mongodb", "mongodb+srv"} /\ uri.rest # ""
\* line 127: client[name] raises InvalidName for an empty name and for a name
\* holding one of these characters
DbNameForbidden == {" ", ".", "$", "/", "\\", "\""}
DbNameAccepted(name) ==
    /\ name # <<>>
    /\ \A i \in 1..Len(name) : name[i] \notin DbNameForbidden

\* lines 122-128: the exception get_mongo_collection raises, or "none"
GetMongoCollectionUnguarded(uri, name) ==
    IF ~UriAbsent(uri) /\ ~UriAccepted(uri) THEN "InvalidURI"
    ELSE IF ~DbNameAccepted(name) THEN "InvalidName"
    ELSE "none"
GetMongoCollection(uri, name) ==
    IF UriAbsent(uri) THEN "RuntimeError"
    ELSE IF ~UriAccepted(uri) THEN "InvalidURI"
    ELSE IF ~DbNameAccepted(name) THEN "InvalidName"
    ELSE "none"

----------------------------------------------------------------------------
(* Bounds of the model. *)

\* largest MAX_RETRIES the environment is given
MaxRetriesBound == 3
\* responses the server gives to one safe_get invocation
MaxGets == 5
\* readings the clock takes beyond its first
MaxClock == 1

----------------------------------------------------------------------------
(* Values. *)

RECURSIVE Pow(_, _)
Pow(b, n) == IF n = 0 THEN 1 ELSE b * Pow(b, n - 1)

\* BACKOFF_FACTOR = 1.5, as the fraction 3/2
BACKOFF_FACTOR == <<3, 2>>

\* the delay computed from the attempt count before its increment
BackoffDelayStale(n) == <<Pow(BACKOFF_FACTOR[1], n - 1), Pow(BACKOFF_FACTOR[2], n - 1)>>

\* BACKOFF_FACTOR ** n
BackoffDelay(n) == <<Pow(BACKOFF_FACTOR[1], n), Pow(BACKOFF_FACTOR[2], n)>>

\* an integer number of seconds
Seconds(n) == <<n, 1>>

\* resp.headers.get("Retry-After", "10"): the header is absent or an integer
Absent == -1
DefaultRetryAfter == 10
\* the header ignored
RetryAfterIgnored(h) == DefaultRetryAfter
RetryAfterValue(h) == IF h = Absent THEN DefaultRetryAfter ELSE h

NoDelay == <<0, 1>>
\* a GET and its outcome: the status and the Retry-After header of the response
GetEvent(status, hdr) == [op |-> "get", status |-> status, hdr |-> hdr, secs |-> NoDelay]
\* a time.sleep(d)
SleepEvent(d) == [op |-> "sleep", status |-> 0, hdr |-> Absent, secs |-> d]

\* status recorded for a GET that raised a transport-level RequestException
TransportFailure == 0

NoResp == [status |-> 0, text |-> <<>>]

IsWhitespace(c) == c \in {" ", "\t", "\n", "\r"}

RECURSIVE LStrip(_)
LStrip(s) == IF s # <<>> /\ IsWhitespace(Head(s)) THEN LStrip(Tail(s)) ELSE s

RECURSIVE RStrip(_)
RStrip(s) ==
    IF s # <<>> /\ IsWhitespace(s[Len(s)]) THEN RStrip(SubSeq(s, 1, Len(s) - 1)) ELSE s

\* str.strip()
Strip(s) == RStrip(LStrip(s))

NumGets(ev) == Cardinality({i \in 1..Len(ev) : ev[i].op = "get"})

----------------------------------------------------------------------------
(* Text operations of the standard library, as parse_ip_list uses them. *)

IsLineBreak(c) == c \in {"\n", "\r"}

RECURSIVE SplitLinesFrom(_, _)
SplitLinesFrom(s, cur) ==
    IF s = <<>> THEN (IF cur = <<>> THEN <<>> ELSE <<cur>>)
    ELSE IF Len(s) >= 2 /\ s[1] = "\r" /\ s[2] = "\n"
         THEN <<cur>> \o SplitLinesFrom(Tail(Tail(s)), <<>>)
    ELSE IF IsLineBreak(Head(s))
         THEN <<cur>> \o SplitLinesFrom(Tail(s), <<>>)
    ELSE SplitLinesFrom(Tail(s), Append(cur, Head(s)))

\* str.splitlines(): "\n", "\r" and "\r\n" end a line; no empty last line
SplitLines(s) == SplitLinesFrom(s, <<>>)

RECURSIVE TakeToken(_)
TakeToken(s) ==
    IF s = <<>> \/ IsWhitespace(Head(s)) THEN <<>>
    ELSE <<Head(s)>> \o TakeToken(Tail(s))

\* the line taken whole
FirstTokenWholeLine(s) == s

\* str.split()[0] of a string with a non-whitespace character
FirstToken(s) == TakeToken(LStrip(s))

RECURSIVE SplitOnFrom(_, _, _)
SplitOnFrom(s, sep, cur) ==
    IF s = <<>> THEN <<cur>>
    ELSE IF Head(s) = sep THEN <<cur>> \o SplitOnFrom(Tail(s), sep, <<>>)
    ELSE SplitOnFrom(Tail(s), sep, Append(cur, Head(s)))

\* str.split(sep) for a one-character separator
SplitOn(s, sep) == SplitOnFrom(s, sep, <<>>)

Digits == {"0", "1", "2", "3", "4", "5", "6", "7", "8", "9"}
HexDigits == Digits \cup {"a", "b", "c", "d", "e", "f", "A", "B", "C", "D", "E", "F"}

DigitValue(c) ==
    CASE c = "0" -> 0 [] c = "1" -> 1 [] c = "2" -> 2 [] c = "3" -> 3 [] c = "4" -> 4
      [] c = "5" -> 5 [] c = "6" -> 6 [] c = "7" -> 7 [] c = "8" -> 8 [] c = "9" -> 9

RECURSIVE DecimalValue(_)
DecimalValue(s) ==
    IF s = <<>> THEN 0
    ELSE 10 * DecimalValue(SubSeq(s, 1, Len(s) - 1)) + DigitValue(s[Len(s)])

\* ipaddress.IPv4Address._parse_octet accepts o
OctetOk(o) ==
    /\ o # <<>>
    /\ \A i \in 1..Len(o) : o[i] \in Digits
    /\ Len(o) <= 3
    /\ ~(o # <<"0">> /\ o[1] = "0")
    /\ DecimalValue(o) <= 255

\* ipaddress.IPv4Address(t) succeeds
IPv4Ok(t) ==
    LET octets == SplitOn(t, ".")
    IN  /\ Len(octets) = 4
        /\ \A i \in 1..4 : OctetOk(octets[i])

\* ipaddress.IPv6Address._parse_hextet accepts h
HextetOk(h) ==
    /\ h # <<>>
    /\ \A i \in 1..Len(h) : h[i] \in HexDigits
    /\ Len(h) <= 4

\* ipaddress.IPv6Address._ip_int_from_string accepts t
IPv6AddrOk(t) ==
    LET parts0 == SplitOn(t, ":")
        n0 == Len(parts0)
        hasV4 == \E i \in 1..Len(parts0[n0]) : parts0[n0][i] = "."
        parts == IF hasV4
                 THEN SubSeq(parts0, 1, n0 - 1) \o <<(<<"0">>), (<<"0">>)>>
                 ELSE parts0
        n == Len(parts)
        skips == {i \in 2..(n - 1) : parts[i] = <<>>}
    IN  /\ n0 >= 3
        /\ hasV4 => IPv4Ok(parts0[n0])
        /\ n <= 9
        /\ Cardinality(skips) <= 1
        /\ IF skips # {}
           THEN LET sk == CHOOSE i \in skips : TRUE
                    hi == IF parts[1] = <<>> THEN sk - 2 ELSE sk - 1
                    lo == IF parts[n] = <<>> THEN n - sk - 1 ELSE n - sk
                IN  /\ parts[1] = <<>> => hi = 0
                    /\ parts[n] = <<>> => lo = 0
                    /\ 8 - (hi + lo) >= 1
                    /\ \A i \in 1..hi : HextetOk(parts[i])
                    /\ \A i \in (n - lo + 1)..n : HextetOk(parts[i])
           ELSE /\ n = 8
                /\ \A i \in 1..n : HextetOk(parts[i])

\* ipaddress.IPv6Address(t) succeeds: an address and an optional %scope
IPv6Ok(t) ==
    LET p == SplitOn(t, "%")
    IN  /\ Len(p) <= 2
        /\ Len(p) = 2 => p[2] # <<>>
        /\ IPv6AddrOk(p[1])

\* ipaddress.ip_address(t) returns rather than raising ValueError
IsValidIp(t) ==
    /\ \A i \in 1..Len(t) : t[i] # "/"
    /\ IPv4Ok(t) \/ IPv6Ok(t)

----------------------------------------------------------------------------
(* The remote server: statuses and bodies it can answer with. *)

Statuses == {200, 204, 403, 404, 429, 500, 503}
RetryAfterHeaders == {Absent, 0, 5}

L_ip1 == <<"1", ".", "2", ".", "3", ".", "4">>
L_ip2extra == <<"5", ".", "6", ".", "7", ".", "8", " ", "e", "x">>
L_comment == <<" ", "#", "c">>
L_blank == <<>>
L_spaces == <<" ", "\t">>
L_badOctet == <<"2", "5", "6", ".", "1", ".", "1", ".", "1">>
L_v6padded == <<" ", ":", ":", "1", "\t">>

\* line terminators the server may use
LineEnds == {<<"\n">>, <<"\r", "\n">>}

RECURSIVE JoinLines(_, _)
\* the lines joined by the terminator eol
JoinLines(ls, eol) ==
    IF ls = <<>> THEN <<>>
    ELSE IF Len(ls) = 1 THEN ls[1]
    ELSE ls[1] \o eol \o JoinLines(Tail(ls), eol)

\* the body sent for the lines ls, with or without a terminator after the last
Body(ls, eol, final) == JoinLines(ls, eol) \o (IF final THEN eol ELSE <<>>)

SeqsUpTo(S, n) == UNION {[1..k -> S] : k \in 0..n}

----------------------------------------------------------------------------
(* safe_get, lines 46-92.  One action is one iteration of the while loop:   *)
(* the GET, the branch taken on its outcome and that branch's sleep.         *)

\* line 51: while attempt < MAX_RETRIES; the server answers MaxGets times at most
InLoop ==
    /\ pc = "safe_get"
    /\ attempt < MAX_RETRIES
    /\ NumGets(events) < MaxGets

\* lines 82-90: except requests.RequestException, entered with the events so far
ExceptRequestException(ev) ==
    /\ attempt' = attempt + 1
    /\ IF attempt + 1 >= MAX_RETRIES
       THEN /\ pc' = "get_raised"
            /\ err' = "RequestException"
            /\ events' = ev
       ELSE /\ events' = Append(ev, SleepEvent(BackoffDelay(attempt + 1)))
            /\ UNCHANGED <<pc, err>>

\* line 53 raises: connection refused, timeout, DNS failure
GetTransportError ==
    /\ InLoop
    /\ ExceptRequestException(Append(events, GetEvent(TransportFailure, Absent)))
    /\ UNCHANGED <<resp, srcLines>>
    /\ GetFrame

\* a 429 that waits and retries without counting the attempt
Get429Uncounted(h) ==
    /\ InLoop
    /\ events' = events \o <<GetEvent(429, h), SleepEvent(Seconds(RetryAfterValue(h)))>>
    /\ UNCHANGED <<attempt, pc, err, resp, srcLines>>
    /\ GetFrame

\* lines 56-61
Get429(h) ==
    /\ InLoop
    /\ events' = events \o <<GetEvent(429, h), SleepEvent(Seconds(RetryAfterValue(h)))>>
    /\ attempt' = attempt + 1
    /\ UNCHANGED <<pc, err, resp, srcLines>>
    /\ GetFrame

\* except Exception: the ValueError of line 66 is caught and retried
Get200EmptyRetried(ls, eol, final) ==
    /\ InLoop
    /\ srcLines' = ls
    /\ IF Strip(Body(ls, eol, final)) = <<>>
       THEN /\ ExceptRequestException(Append(events, GetEvent(200, Absent)))
            /\ UNCHANGED resp
       ELSE /\ events' = Append(events, GetEvent(200, Absent))
            /\ pc' = "get_returned"
            /\ resp' = [status |-> 200, text |-> Body(ls, eol, final)]
            /\ UNCHANGED <<err, attempt>>
    /\ GetFrame

\* lines 64-67
Get200(ls, eol, final) ==
    /\ InLoop
    /\ events' = Append(events, GetEvent(200, Absent))
    /\ srcLines' = ls
    /\ IF Strip(Body(ls, eol, final)) = <<>>
       THEN /\ pc' = "get_raised"
            /\ err' = "ValueError"
            /\ UNCHANGED resp
       ELSE /\ pc' = "get_returned"
            /\ resp' = [status |-> 200, text |-> Body(ls, eol, final)]
            /\ UNCHANGED err
    /\ UNCHANGED attempt
    /\ GetFrame

\* lines 70-75
Get5xx(s) ==
    /\ InLoop
    /\ s # 429 /\ s # 200
    /\ 500 <= s /\ s < 600
    /\ attempt' = attempt + 1
    /\ events' = events \o <<GetEvent(s, Absent), SleepEvent(BackoffDelay(attempt + 1))>>
    /\ UNCHANGED <<pc, err, resp, srcLines>>
    /\ GetFrame

\* Response.raise_for_status(): HTTPError, a RequestException, for 4xx and 5xx
RaisesForStatus(s) == 400 <= s /\ s < 600

\* lines 78-80, and 82-90 when raise_for_status raises inside the try block
GetOther(s) ==
    /\ InLoop
    /\ s # 429 /\ s # 200
    /\ ~(500 <= s /\ s < 600)
    /\ IF RaisesForStatus(s)
       THEN ExceptRequestException(Append(events, GetEvent(s, Absent)))
       ELSE /\ events' = Append(events, GetEvent(s, Absent))
            /\ UNCHANGED <<pc, attempt, err>>
    /\ UNCHANGED <<resp, srcLines>>
    /\ GetFrame

\* line 92: the loop ended without a return
GetExhausted ==
    /\ pc = "safe_get"
    /\ attempt >= MAX_RETRIES
    /\ pc' = "get_raised"
    /\ err' = "RuntimeError"
    /\ UNCHANGED getVars
    /\ GetFrame

\* one step of safe_get against a server drawing its answers from the given sets
SafeGetStep(statuses, headers, bodies, eols, finals) ==
    \/ GetTransportError
    \/ \E h \in headers : Get429(h)
    \/ \E ls \in bodies, eol \in eols, f \in finals : Get200(ls, eol, f)
    \/ \E s \in statuses : Get5xx(s)
    \/ \E s \in statuses : GetOther(s)
    \/ GetExhausted

\* the state of a local or argument that holds nothing yet
IdleGet ==
    /\ attempt = 0
    /\ events = <<>>
    /\ resp = NoResp
    /\ srcLines = <<>>

IdleParse ==
    /\ text = <<>>
    /\ service = ""
    /\ lines = <<>>
    /\ docs = <<>>
    /\ now = 0

IdleInsert ==
    /\ batch = <<>>
    /\ inserted = 0
    /\ insertCalls = <<>>

IdleRun ==
    /\ epIdx = 0
    /\ total = 0
    /\ runLog = <<>>

\* bodies, as lines, answered to a safe_get called on its own
GetBodies == {<<>>, <<L_blank>>, <<L_spaces>>, <<L_ip1>>, <<L_spaces, L_ip1>>}

\* safe_get called once, lines 48-49 done
InitGet ==
    /\ MAX_RETRIES \in 0..MaxRetriesBound
    /\ MONGO_URI = GoodUri
    /\ MONGO_DB = DefaultDb
    /\ pc = "safe_get"
    /\ err = "none"
    /\ clock = 0
    /\ store = <<>>
    /\ IdleGet /\ IdleParse /\ IdleInsert /\ IdleRun

NextGet ==
    SafeGetStep(Statuses, RetryAfterHeaders, GetBodies, LineEnds, BOOLEAN)

SpecGet == InitGet /\ [][NextGet]_vars

----------------------------------------------------------------------------
(* parse_ip_list, lines 95-119.  One action is one iteration of the for loop. *)

ParseFrame == UNCHANGED <<cfgVars, err, getVars, clock, insertVars, runVars>>

\* line 102: the stripped line is skipped
SkipLine(line) == line = <<>> \/ Head(line) = "#"

\* lines 113-118
Doc(token, svc, ts) ==
    [ip |-> token, service |-> svc, source |-> "blocklist.de/lists", fetched_at |-> ts]

\* lines 97-100: docs = [], now = utcnow(), text.splitlines()
ParseEnter ==
    /\ pc = "parse_ip_list"
    /\ docs' = <<>>
    /\ now' = clock
    /\ lines' = SplitLines(text)
    /\ pc' = "parse_loop"
    /\ UNCHANGED <<text, service>>
    /\ ParseFrame

\* the next line, taken without validation of its token
ParseLineUnvalidated ==
    /\ pc = "parse_loop"
    /\ lines # <<>>
    /\ LET line == Strip(Head(lines))
       IN  IF SkipLine(line) THEN UNCHANGED docs
           ELSE docs' = Append(docs, Doc(FirstToken(line), service, now))
    /\ lines' = Tail(lines)
    /\ UNCHANGED <<pc, text, service, now>>
    /\ ParseFrame

\* lines 100-118: the next line
ParseLine ==
    /\ pc = "parse_loop"
    /\ lines # <<>>
    /\ LET line == Strip(Head(lines))
       IN  IF SkipLine(line) THEN UNCHANGED docs
           ELSE IF ~IsValidIp(FirstToken(line)) THEN UNCHANGED docs
           ELSE docs' = Append(docs, Doc(FirstToken(line), service, now))
    /\ lines' = Tail(lines)
    /\ UNCHANGED <<pc, text, service, now>>
    /\ ParseFrame

\* line 119
ParseReturn ==
    /\ pc = "parse_loop"
    /\ lines = <<>>
    /\ pc' = "parse_returned"
    /\ UNCHANGED parseVars
    /\ ParseFrame

\* time passes while parse_ip_list runs
Tick ==
    /\ pc \in {"parse_ip_list", "parse_loop"}
    /\ clock < MaxClock
    /\ clock' = clock + 1
    /\ UNCHANGED <<cfgVars, pc, err, getVars, parseVars, insertVars, runVars>>

ParseStep == ParseEnter \/ ParseLine \/ ParseReturn \/ Tick

\* lines of the bodies given to a parse_ip_list called on its own
ParseLines ==
    {L_ip1, L_ip2extra, L_comment, L_spaces, L_badOctet, L_v6padded}
MaxParseLines == 3

\* service names, the keys of LIST_ENDPOINTS (lines 36-43)
AllServices == <<"ssh", "mail", "apache", "imap", "ftp", "bots">>

\* parse_ip_list called once
InitParse ==
    /\ MAX_RETRIES = MaxRetriesBound
    /\ MONGO_URI = GoodUri
    /\ MONGO_DB = DefaultDb
    /\ pc = "parse_ip_list"
    /\ err = "none"
    /\ clock = 0
    /\ store = <<>>
    /\ attempt = 0 /\ events = <<>> /\ resp = NoResp
    /\ IdleInsert /\ IdleRun
    /\ lines = <<>> /\ docs = <<>> /\ now = 0
    /\ service \in {AllServices[1], AllServices[2]}
    /\ srcLines \in SeqsUpTo(ParseLines, MaxParseLines)
    /\ text \in {Body(srcLines, eol, f) : eol \in LineEnds, f \in BOOLEAN}

SpecParse == InitParse /\ [][ParseStep]_vars

----------------------------------------------------------------------------
(* safe_insert_many, lines 130-146, and the collection it writes to.        *)
(* collection.insert_many(docs, ordered=False) either acknowledges every    *)
(* document, or raises BulkWriteError after writing all but the rejected    *)
(* ones, or raises another error having written some of them or none.       *)

InsertFrame == UNCHANGED <<cfgVars, err, getVars, parseVars, clock, runVars>>

RECURSIVE PickFrom(_, _, _)
PickFrom(b, S, i) ==
    IF i > Len(b) THEN <<>>
    ELSE (IF i \in S THEN <<b[i]>> ELSE <<>>) \o PickFrom(b, S, i + 1)

\* the documents of b at the indices S, in order
Pick(b, S) == PickFrom(b, S, 1)

InsertCall(b, S, outcome) == [docs |-> b, persisted |-> S, outcome |-> outcome]

\* the emptiness test is lost
IsEmptyBatchNever(b) == FALSE

\* line 132: not docs
IsEmptyBatch(b) == b = <<>>

\* every document counted as inserted
BulkInsertedAll(b, rejected) == Len(b)

\* line 141: bwe.details.get("nInserted", 0)
BulkInserted(b, rejected) == Len(b) - Cardinality(rejected)

\* lines 132-134
InsertEmpty ==
    /\ pc = "safe_insert_many"
    /\ IsEmptyBatch(batch)
    /\ inserted' = 0
    /\ pc' = "insert_returned"
    /\ UNCHANGED <<batch, store, insertCalls>>
    /\ InsertFrame

\* lines 136-139: every document acknowledged
InsertOk ==
    /\ pc = "safe_insert_many"
    /\ ~IsEmptyBatch(batch)
    /\ store' = store \o batch
    /\ insertCalls' = Append(insertCalls, InsertCall(batch, 1..Len(batch), "ok"))
    /\ inserted' = Len(batch)
    /\ pc' = "insert_returned"
    /\ UNCHANGED batch
    /\ InsertFrame

\* lines 136, 140-143: the store rejects the documents at the indices rejected
InsertBulkWriteError(rejected) ==
    /\ pc = "safe_insert_many"
    /\ ~IsEmptyBatch(batch)
    /\ rejected # {}
    /\ store' = store \o Pick(batch, (1..Len(batch)) \ rejected)
    /\ insertCalls' =
           Append(insertCalls, InsertCall(batch, (1..Len(batch)) \ rejected, "bulk"))
    /\ inserted' = BulkInserted(batch, rejected)
    /\ pc' = "insert_returned"
    /\ UNCHANGED batch
    /\ InsertFrame

\* the exception leaves safe_insert_many
InsertOtherErrorPropagates(persisted) ==
    /\ pc = "safe_insert_many"
    /\ ~IsEmptyBatch(batch)
    /\ store' = store \o Pick(batch, persisted)
    /\ insertCalls' = Append(insertCalls, InsertCall(batch, persisted, "error"))
    /\ pc' = "insert_raised"
    /\ err' = "Exception"
    /\ UNCHANGED <<batch, inserted>>
    /\ UNCHANGED <<cfgVars, getVars, parseVars, clock, runVars>>

\* lines 136, 144-146: another failure, the documents at persisted were written
InsertOtherError(persisted) ==
    /\ pc = "safe_insert_many"
    /\ ~IsEmptyBatch(batch)
    /\ store' = store \o Pick(batch, persisted)
    /\ insertCalls' = Append(insertCalls, InsertCall(batch, persisted, "error"))
    /\ inserted' = 0
    /\ pc' = "insert_returned"
    /\ UNCHANGED batch
    /\ InsertFrame

InsertStep ==
    \/ InsertEmpty
    \/ InsertOk
    \/ \E rejected \in SUBSET (1..Len(batch)) : InsertBulkWriteError(rejected)
    \/ \E persisted \in SUBSET (1..Len(batch)) : InsertOtherError(persisted)

\* documents of the batches given to a safe_insert_many called on its own
SampleDocs ==
    {Doc(<<"1", ".", "2", ".", "3", ".", "4">>, "ssh", 0),
     Doc(<<"5", ".", "6", ".", "7", ".", "8">>, "ssh", 0),
     Doc(<<":", ":", "1">>, "ssh", 0)}
MaxBatch == 2

\* safe_insert_many called once, on an empty or a non-empty collection
InitInsert ==
    /\ MAX_RETRIES = MaxRetriesBound
    /\ MONGO_URI = GoodUri
    /\ MONGO_DB = DefaultDb
    /\ pc = "safe_insert_many"
    /\ err = "none"
    /\ clock = 0
    /\ IdleGet /\ IdleParse /\ IdleRun
    /\ inserted = 0
    /\ insertCalls = <<>>
    /\ store \in SeqsUpTo(SampleDocs, 1)
    /\ batch \in SeqsUpTo(SampleDocs, MaxBatch)

SpecInsert == InitInsert /\ [][InsertStep]_vars

----------------------------------------------------------------------------
(* run_lists_connector, lines 149-167. *)

\* endpoints of the mapping that the run visits
NumEndpoints == 2

\* the keys of LIST_ENDPOINTS in iteration order (lines 36-43)
LIST_ENDPOINTS == SubSeq(AllServices, 1, NumEndpoints)

LogEntry(op, svc, n) == [op |-> op, service |-> svc, n |-> n]

\* the locals of an iteration hold nothing when the next iteration starts
ResetLocals ==
    /\ attempt' = 0 /\ events' = <<>> /\ resp' = NoResp /\ srcLines' = <<>>
    /\ text' = <<>> /\ service' = "" /\ lines' = <<>> /\ docs' = <<>> /\ now' = 0
    /\ batch' = <<>> /\ inserted' = 0

\* lines 151-152: the collection is obtained before the loop; an exception of
\* get_mongo_collection leaves run_lists_connector
RunStart ==
    /\ pc = "run"
    /\ LET e == GetMongoCollection(MONGO_URI, MONGO_DB)
       IN IF e = "none"
          THEN /\ pc' = "for"
               /\ total' = 0
               /\ epIdx' = 1
               /\ UNCHANGED err
          ELSE /\ pc' = "aborted"
               /\ err' = e
               /\ UNCHANGED <<total, epIdx>>
    /\ UNCHANGED <<cfgVars, getVars, parseVars, clock, insertVars, runLog>>

\* lines 154-157: the next endpoint, safe_get(url) called
RunFetch ==
    /\ pc = "for"
    /\ epIdx <= Len(LIST_ENDPOINTS)
    /\ pc' = "safe_get"
    /\ attempt' = 0
    /\ events' = <<>>
    /\ runLog' = Append(runLog, LogEntry("fetch", LIST_ENDPOINTS[epIdx], 0))
    /\ UNCHANGED <<cfgVars, err, resp, srcLines, parseVars, clock, insertVars, epIdx, total>>

\* except Exception, break
RunFetchFailedBreaks ==
    /\ pc = "get_raised"
    /\ err' = "none"
    /\ runLog' = Append(runLog, LogEntry("failed", LIST_ENDPOINTS[epIdx], 0))
    /\ epIdx' = Len(LIST_ENDPOINTS) + 1
    /\ pc' = "for"
    /\ ResetLocals
    /\ UNCHANGED <<cfgVars, clock, store, insertCalls, total>>

\* lines 158-160: except Exception, continue
RunFetchFailed ==
    /\ pc = "get_raised"
    /\ err' = "none"
    /\ runLog' = Append(runLog, LogEntry("failed", LIST_ENDPOINTS[epIdx], 0))
    /\ epIdx' = epIdx + 1
    /\ pc' = "for"
    /\ ResetLocals
    /\ UNCHANGED <<cfgVars, clock, store, insertCalls, total>>

\* line 162: parse_ip_list(resp.text, service) called
RunParse ==
    /\ pc = "get_returned"
    /\ text' = resp.text
    /\ service' = LIST_ENDPOINTS[epIdx]
    /\ pc' = "parse_ip_list"
    /\ runLog' = Append(runLog, LogEntry("parse", LIST_ENDPOINTS[epIdx], 0))
    /\ UNCHANGED <<cfgVars, err, getVars, lines, docs, now, clock, insertVars, epIdx, total>>

\* the documents of the previous endpoint are submitted again with this one's
RunInsertMerged ==
    /\ pc = "parse_returned"
    /\ batch' = (IF insertCalls = <<>> THEN <<>>
                 ELSE insertCalls[Len(insertCalls)].docs) \o docs
    /\ pc' = "safe_insert_many"
    /\ runLog' = Append(runLog, LogEntry("insert", LIST_ENDPOINTS[epIdx], Len(docs)))
    /\ UNCHANGED <<cfgVars, err, getVars, parseVars, clock, inserted, store, insertCalls,
                   epIdx, total>>

\* line 163: safe_insert_many(collection, docs) called
RunInsert ==
    /\ pc = "parse_returned"
    /\ batch' = docs
    /\ pc' = "safe_insert_many"
    /\ runLog' = Append(runLog, LogEntry("insert", LIST_ENDPOINTS[epIdx], Len(docs)))
    /\ UNCHANGED <<cfgVars, err, getVars, parseVars, clock, inserted, store, insertCalls,
                   epIdx, total>>

\* total += len(docs): the size of the batch instead of the count returned
RunAccumulateBatchSize ==
    /\ pc = "insert_returned"
    /\ total' = total + Len(batch)
    /\ runLog' = runLog \o <<LogEntry("inserted", LIST_ENDPOINTS[epIdx], inserted),
                             LogEntry("sleep", LIST_ENDPOINTS[epIdx], 1)>>
    /\ epIdx' = epIdx + 1
    /\ pc' = "for"
    /\ ResetLocals
    /\ UNCHANGED <<cfgVars, err, clock, store, insertCalls>>

\* lines 163-165: the count returned is added to total, time.sleep(1)
RunAccumulate ==
    /\ pc = "insert_returned"
    /\ total' = total + inserted
    /\ runLog' = runLog \o <<LogEntry("inserted", LIST_ENDPOINTS[epIdx], inserted),
                             LogEntry("sleep", LIST_ENDPOINTS[epIdx], 1)>>
    /\ epIdx' = epIdx + 1
    /\ pc' = "for"
    /\ ResetLocals
    /\ UNCHANGED <<cfgVars, err, clock, store, insertCalls>>

\* line 167: the mapping is exhausted, the total is logged
RunFinish ==
    /\ pc = "for"
    /\ epIdx > Len(LIST_ENDPOINTS)
    /\ pc' = "done"
    /\ runLog' = Append(runLog, LogEntry("total", "", total))
    /\ UNCHANGED <<cfgVars, err, getVars, parseVars, clock, insertVars, epIdx, total>>

\* what the server answers during a run
RunStatuses == {404, 500}
RunHeaders == {Absent}
RunBodies == {<<>>, <<L_badOctet>>, <<L_ip1, L_badOctet, L_ip2extra>>}
\* largest MAX_RETRIES a run is given
MaxRunRetries == 2
\* the persistence configuration a run is given
RunUris == {NoUri, NoSchemeUri, GoodUri}
RunDbs == {DefaultDb, EmptyDb, SpacedDb}

Init ==
    /\ MAX_RETRIES \in 0..MaxRunRetries
    /\ MONGO_URI \in RunUris
    /\ MONGO_DB \in RunDbs
    /\ pc = "run"
    /\ err = "none"
    /\ clock = 0
    /\ store = <<>>
    /\ IdleGet /\ IdleParse /\ IdleInsert /\ IdleRun

Next ==
    \/ RunStart
    \/ RunFetch
    \/ RunFetchFailed
    \/ RunParse
    \/ RunInsert
    \/ RunAccumulate
    \/ RunFinish
    \/ SafeGetStep(RunStatuses, RunHeaders, RunBodies, {<<"\n">>}, {TRUE})
    \/ ParseStep
    \/ InsertStep

Spec == Init /\ [][Next]_vars

----------------------------------------------------------------------------
(* Properties of safe_get. *)

GetIndices == {i \in 1..Len(events) : events[i].op = "get"}
IsClientError(s) == 400 <= s /\ s < 500 /\ s # 429
IsServerError(s) == 500 <= s /\ s < 600
StatusesOf(ev) == [i \in 1..Len(ev) |-> ev[i].status]
GetStatuses == StatusesOf(SelectSeq(events, LAMBDA e : e.op = "get"))

\* C1: a 4xx response other than 429 ends the fetch at once: it is the last
\* event of the invocation (no sleep, no further GET) and the error is raised.
C1_ClientErrorFailsImmediately ==
    \A i \in GetIndices :
        IsClientError(events[i].status) => i = Len(events) /\ pc = "get_raised"

\* C2: one invocation never issues more than MAX_RETRIES + 1 GETs.
C2_AtMostMaxRetriesPlusOneGets == NumGets(events) <= MAX_RETRIES + 1

\* k server errors followed by a 200
ServerErrorsThenOk(k) ==
    /\ Len(GetStatuses) = k + 1
    /\ \A j \in 1..k : IsServerError(GetStatuses[j])
    /\ GetStatuses[k + 1] = 200

\* GET, sleep 1.5^1, GET, sleep 1.5^2, ..., GET: k sleeps, each between two GETs
AlternatesWithBackoff(k) ==
    /\ Len(events) = 2 * k + 1
    /\ \A j \in 1..(k + 1) : events[2 * j - 1].op = "get"
    /\ \A j \in 1..k : events[2 * j] = SleepEvent(<<Pow(3, j), Pow(2, j)>>)

\* C3: after k 5xx answers (1 <= k < MAX_RETRIES) and then a 200 with a non-empty
\* body, safe_get returns that response having slept exactly 1.5^1, ..., 1.5^k,
\* each sleep between two consecutive GETs, k + 1 GETs in all.
C3_BackoffThenSuccess ==
    \A k \in 1..MaxGets :
        (/\ pc \in {"safe_get", "get_returned", "get_raised"}
         /\ k < MAX_RETRIES
         /\ ServerErrorsThenOk(k)
         /\ \E i \in 1..Len(srcLines) : Strip(srcLines[i]) # <<>>)
        => /\ pc = "get_returned"
           /\ resp.status = 200
           /\ \E eol \in LineEnds, f \in BOOLEAN : resp.text = Body(srcLines, eol, f)
           /\ AlternatesWithBackoff(k)

C3_Witness ==
    /\ pc = "get_returned"
    /\ GetStatuses = <<500, 503, 200>>
    /\ AlternatesWithBackoff(2)

\* C4: a step that receives a 429 sleeps exactly the advertised Retry-After
\* (10 when absent), which is not 1.5 ** attempt, and adds one to the attempt
\* counter, whatever the counter was.
C4_RateLimitSleepsAdvertised ==
    [][\A h \in RetryAfterHeaders :
          (/\ Len(events') > Len(events)
           /\ SubSeq(events', 1, Len(events)) = events
           /\ events'[Len(events) + 1] = GetEvent(429, h))
          => /\ Len(events') = Len(events) + 2
             /\ events'[Len(events) + 2] =
                    SleepEvent(<<(IF h = Absent THEN 10 ELSE h), 1>>)
             /\ events'[Len(events) + 2].secs # <<Pow(3, attempt'), Pow(2, attempt')>>
             /\ attempt' = attempt + 1]_vars

C4_Witness ==
    /\ Len(events) >= 6
    /\ events[1].op = "get" /\ IsServerError(events[1].status)
    /\ events[3] = GetEvent(429, 5) /\ events[4] = SleepEvent(<<5, 1>>)
    /\ events[5] = GetEvent(429, Absent) /\ events[6] = SleepEvent(<<10, 1>>)
    /\ attempt = 3

----------------------------------------------------------------------------
(* Properties of parse_ip_list, stated over the lines the body was made of. *)

Blanks == {" ", "\t"}
NonBlankAt(l) == {i \in 1..Len(l) : l[i] \notin Blanks}
SetMin(S) == CHOOSE x \in S : \A y \in S : x <= y
SetMax(S) == CHOOSE x \in S : \A y \in S : x >= y

\* the line without its leading and trailing blanks
Trimmed(l) ==
    IF NonBlankAt(l) = {} THEN <<>>
    ELSE SubSeq(l, SetMin(NonBlankAt(l)), SetMax(NonBlankAt(l)))

\* the characters of a trimmed line before its first blank
TokenOf(t) ==
    LET blanksAt == {i \in 1..Len(t) : t[i] \in Blanks}
    IN  IF blanksAt = {} THEN t ELSE SubSeq(t, 1, SetMin(blanksAt) - 1)

IsCommentLine(l) == Trimmed(l) # <<>> /\ Trimmed(l)[1] = "#"

\* the line yields a record
Qualifies(l) ==
    /\ Trimmed(l) # <<>>
    /\ ~IsCommentLine(l)
    /\ IsValidIp(TokenOf(Trimmed(l)))

\* the indices of the lines ls that yield a record
QualifyingIndices(ls) == {i \in 1..Len(ls) : Qualifies(ls[i])}

\* the qualifying lines of ls, in line order
QualifyingLines(ls) ==
    LET q == QualifyingIndices(ls)
        at == [k \in 1..Cardinality(q) |->
                  CHOOSE i \in q : Cardinality({j \in q : j <= i}) = k]
    IN  [k \in 1..Cardinality(q) |-> ls[at[k]]]

\* C5: parse_ip_list returns one record per line that is non-blank after
\* trimming, is no '#' comment and starts with a valid address, in line order;
\* each record has that first token as ip, the given service and one shared
\* fetched_at.  A '#' line yields no record.
C5_OneRecordPerValidLine ==
    pc = "parse_returned" =>
        LET ql == QualifyingLines(srcLines)
        IN  /\ Len(docs) = Len(ql)
            /\ \A k \in 1..Len(docs) :
                  /\ docs[k].ip = TokenOf(Trimmed(ql[k]))
                  /\ ~IsCommentLine(ql[k])
                  /\ docs[k].service = service
                  /\ docs[k].fetched_at = docs[1].fetched_at

\* the body "1.2.3.4\n #c\n5.6.7.8 ex\n" gives the records 1.2.3.4 and 5.6.7.8
C5_Witness ==
    /\ pc = "parse_returned"
    /\ srcLines = <<L_ip1, L_comment, L_ip2extra>>
    /\ text = Body(srcLines, <<"\n">>, TRUE)
    /\ service = "ssh"
    /\ Len(docs) = 2
    /\ docs[1].ip = <<"1", ".", "2", ".", "3", ".", "4">>
    /\ docs[2].ip = <<"5", ".", "6", ".", "7", ".", "8">>
    /\ docs[1].service = "ssh" /\ docs[2].service = "ssh"
    /\ docs[1].fetched_at = docs[2].fetched_at
    /\ clock > docs[1].fetched_at

----------------------------------------------------------------------------
(* Properties of the documents submitted during a run. *)

IpsOf(ds) == [k \in 1..Len(ds) |-> ds[k].ip]
TokensOf(ls) == [k \in 1..Len(ls) |-> TokenOf(Trimmed(ls[k]))]

\* the ip of every document passed to insert_many so far
SubmittedIps ==
    UNION {{insertCalls[c].docs[k].ip : k \in 1..Len(insertCalls[c].docs)} :
              c \in 1..Len(insertCalls)}

\* the ip of every document in the collection
StoredIps == {store[k].ip : k \in 1..Len(store)}

\* C6: every document passed to insert_many, and so every stored document, has
\* an ip that passed validation; a line with an invalid token gives no record
\* and the valid lines of the same body are the batch submitted.
C6_OnlyValidAddressesSubmitted ==
    /\ \A ip \in SubmittedIps \cup StoredIps : IsValidIp(ip)
    /\ pc = "safe_insert_many" => IpsOf(batch) = TokensOf(QualifyingLines(srcLines))
    /\ (pc = "insert_returned" /\ batch # <<>>) =>
           insertCalls[Len(insertCalls)].docs = batch

C6_Witness ==
    /\ pc = "insert_returned"
    /\ srcLines = <<L_ip1, L_badOctet, L_ip2extra>>
    /\ insertCalls # <<>>
    /\ IpsOf(insertCalls[Len(insertCalls)].docs) =
           <<(<<"1", ".", "2", ".", "3", ".", "4">>), (<<"5", ".", "6", ".", "7", ".", "8">>)>>

----------------------------------------------------------------------------
(* Properties of safe_insert_many. *)

\* C7: called with an empty batch, safe_insert_many returns 0, calls
\* insert_many not at all and leaves the store as it was.
C7_EmptyBatchNoPersistenceCall ==
    [][(pc = "safe_insert_many" /\ batch = <<>>)
       => /\ pc' = "insert_returned"
          /\ inserted' = 0
          /\ insertCalls' = insertCalls
          /\ store' = store]_vars

C7_Witness ==
    /\ pc = "insert_returned"
    /\ batch = <<>>
    /\ inserted = 0
    /\ insertCalls = <<>>
    /\ store # <<>>

\* C8: safe_insert_many always returns: the batch size when every record is
\* acknowledged, the number of records the store accepted after a bulk-write
\* error, 0 after any other failure.
C8_InsertNeverRaises ==
    [][pc = "safe_insert_many"
       => /\ pc' = "insert_returned"
          /\ err' = "none"
          /\ Len(insertCalls') > Len(insertCalls) =>
                LET call == insertCalls'[Len(insertCalls')]
                IN  /\ call.outcome = "ok" => inserted' = Len(batch)
                    /\ call.outcome = "bulk" => inserted' = Len(store') - Len(store)
                    /\ call.outcome = "error" => inserted' = 0]_vars

C8_Witness ==
    /\ pc = "insert_returned"
    /\ Len(batch) = 2
    /\ insertCalls # <<>>
    /\ insertCalls[1].outcome = "bulk"
    /\ insertCalls[1].persisted = {2}
    /\ inserted = 1

\* C9: the count returned is between 0 and the batch size and is no more than
\* the number of records of the batch that the call put into the store.
C9_CountWithinBatchAndStore ==
    [][pc = "safe_insert_many"
       => /\ 0 <= inserted'
          /\ inserted' <= Len(batch)
          /\ \E S \in SUBSET (1..Len(batch)) :
                /\ store' = store \o Pick(batch, S)
                /\ inserted' <= Cardinality(S)]_vars

C9_Witness ==
    /\ pc = "insert_returned"
    /\ Len(batch) = 2
    /\ insertCalls # <<>>
    /\ insertCalls[1].outcome = "error"
    /\ insertCalls[1].persisted = {1}
    /\ inserted = 0
    /\ Len(store) = 2

----------------------------------------------------------------------------
(* Properties of run_lists_connector. *)

EntriesOf(op) == SelectSeq(runLog, LAMBDA e : e.op = op)
ServicesOf(es) == [k \in 1..Len(es) |-> es[k].service]
FailedServices == {runLog[i].service : i \in {j \in 1..Len(runLog) : runLog[j].op = "failed"}}

\* C10: a safe_get failure, whatever the error, does not abort the run: the
\* endpoint gets no parse and no insert, the loop moves to the next endpoint,
\* and the endpoints are fetched once each in the order of the mapping, all of
\* them by the end of the run.
C10_FetchFailureSkipsEndpoint ==
    /\ [](/\ Len(EntriesOf("fetch")) <= Len(LIST_ENDPOINTS)
          /\ ServicesOf(EntriesOf("fetch")) =
                 SubSeq(LIST_ENDPOINTS, 1, Len(EntriesOf("fetch")))
          /\ \A i \in 1..Len(runLog) :
                runLog[i].op \in {"parse", "insert", "inserted"}
                    => runLog[i].service \notin FailedServices
          /\ pc = "done" => ServicesOf(EntriesOf("fetch")) = LIST_ENDPOINTS)
    /\ [][pc = "get_raised"
          => /\ pc' = "for"
             /\ epIdx' = epIdx + 1
             /\ UNCHANGED <<store, insertCalls, total>>]_vars

C10_Witness ==
    /\ pc = "done"
    /\ Len(runLog) >= 3
    /\ runLog[1] = LogEntry("fetch", "ssh", 0)
    /\ runLog[2] = LogEntry("failed", "ssh", 0)
    /\ runLog[3] = LogEntry("fetch", "mail", 0)
    /\ \E i \in 1..Len(runLog) : runLog[i].op = "inserted" /\ runLog[i].service = "mail"

\* ---- C11 ----
\* no endpoint has been touched: no fetch started, no GET, no persistence call
NothingProcessed ==
    /\ runLog = <<>>
    /\ events = <<>>
    /\ insertCalls = <<>>
    /\ store = <<>>

\* a run without a connection string ends in the configuration error before
\* any endpoint is processed
UnconfiguredRunAborts ==
    (UriAbsent(MONGO_URI) /\ pc # "run") =>
        /\ pc = "aborted"
        /\ err = "RuntimeError"
        /\ NothingProcessed

RECURSIVE SumOfCounts(_)
SumOfCounts(es) == IF es = <<>> THEN 0 ELSE Head(es).n + SumOfCounts(Tail(es))

\* C12: while the endpoints are processed the running total is the sum of the
\* counts safe_insert_many returned for the endpoints finished so far, every
\* finished endpoint having either failed its fetch (contributing nothing) or
\* returned one count, and the total reported at the end of the run is that
\* sum.
C12_TotalIsSumOfReturnedCounts ==
    pc \notin {"run", "aborted"} =>
        LET returned == EntriesOf("inserted")
        IN /\ total = SumOfCounts(returned)
           /\ Len(returned) + Len(EntriesOf("failed")) = epIdx - 1
           /\ \A k \in 1..Len(returned) : returned[k].service \notin FailedServices
           /\ pc = "done" => runLog[Len(runLog)] = LogEntry("total", "", SumOfCounts(returned))

C12_Witness ==
    /\ pc = "done"
    /\ total = 3
    /\ \E i, j \in 1..Len(runLog) :
          /\ i < j
          /\ runLog[i] = LogEntry("inserted", "ssh", 1)
          /\ runLog[j] = LogEntry("inserted", "mail", 2)
    /\ runLog[Len(runLog)].n = 3

\* ---- C13 ----
\* C13: safe_get terminates whatever the server answers: the loop runs only
\* while attempt < MAX_RETRIES, so the invocation ends (by returning or by
\* raising) within MAX_RETRIES iterations provided every iteration that
\* neither returns nor raises consumes one attempt.
C13_EveryIterationEndsOrConsumesAttempt ==
    [][(pc = "safe_get" /\ pc' = "safe_get") => attempt' = attempt + 1]_vars

\* ---- C14 ----
\* the step receives the answer of a GET with a 5xx status
Received5xx ==
    /\ Len(events') > Len(events)
    /\ events'[Len(events) + 1].op = "get"
    /\ IsServerError(events'[Len(events) + 1].status)

\* C14: on a 5xx response the attempt counter is incremented; if the attempts
\* are then exhausted no sleep is performed before safe_get fails, otherwise
\* safe_get sleeps BACKOFF_FACTOR ** attempt and the loop goes on to another
\* GET.
C14_ServerErrorSleepsOnlyBeforeRetry ==
    [][Received5xx =>
          /\ attempt' = attempt + 1
          /\ SubSeq(events', 1, Len(events)) = events
          /\ IF attempt' >= MAX_RETRIES
             THEN Len(events') = Len(events) + 1
             ELSE /\ Len(events') = Len(events) + 2
                  /\ events'[Len(events) + 2] = SleepEvent(BackoffDelay(attempt'))
                  /\ pc' = "safe_get"]_vars

\* ---- C15 ----
\* the step's GET fails at the transport level
ReceivedTransportFailure ==
    /\ Len(events') > Len(events)
    /\ events'[Len(events) + 1] = GetEvent(TransportFailure, Absent)

\* C15: on a transport-level failure the attempt counter is incremented;
\* safe_get gives up (re-raising, without sleeping) only if the counter then
\* exceeds MAX_RETRIES, and for every earlier failure it sleeps
\* BACKOFF_FACTOR ** attempt and the loop goes on to another GET.
C15_TransportFailureGivesUpPastCeiling ==
    [][ReceivedTransportFailure =>
          /\ attempt' = attempt + 1
          /\ SubSeq(events', 1, Len(events)) = events
          /\ IF attempt' > MAX_RETRIES
             THEN /\ Len(events') = Len(events) + 1
                  /\ pc' = "get_raised"
                  /\ err' = "RequestException"
             ELSE /\ Len(events') = Len(events) + 2
                  /\ events'[Len(events) + 2] = SleepEvent(BackoffDelay(attempt'))
                  /\ pc' = "safe_get"]_vars

\* ---- C16 ----
\* the step receives the answer of a GET with status 200
Received200 ==
    /\ Len(events') > Len(events)
    /\ events'[Len(events) + 1].op = "get"
    /\ events'[Len(events) + 1].status = 200

\* every line the body was composed of holds blanks only
AllLinesBlank(ls) == \A i \in 1..Len(ls) : Trimmed(ls[i]) = <<>>

\* C16: a 200 response with an empty or whitespace-only body makes safe_get
\* fail with ValueError on that attempt, whatever the attempt count, with no
\* sleep and no further GET; a 200 response with a non-empty body is returned
\* on that attempt with no sleep; in both cases the attempt counter is left
\* alone and nothing is issued after the invocation ended.
C16_OkResponseSettlesAtOnce ==
    /\ [][Received200 =>
             /\ events' = Append(events, GetEvent(200, Absent))
             /\ attempt' = attempt
             /\ IF AllLinesBlank(srcLines')
                THEN /\ pc' = "get_raised"
                     /\ err' = "ValueError"
                     /\ resp' = resp
                ELSE /\ pc' = "get_returned"
                     /\ err' = err
                     /\ resp'.status = 200
                     /\ \E eol \in LineEnds, f \in BOOLEAN :
                           resp'.text = Body(srcLines', eol, f)]_vars
    /\ [][(pc # "safe_get") => UNCHANGED events]_vars

C16_Witness ==
    /\ MAX_RETRIES = 3
    /\ attempt = 2
    /\ pc = "get_raised"
    /\ err = "ValueError"
    /\ srcLines = <<L_spaces>>
    /\ Len(events) = 5
    /\ events[5] = GetEvent(200, Absent)
    /\ events[4].op = "sleep"

\* ---- C17 ----
\* an outcome the loop retries: rate limit, server error, transport failure
IsRetriedOutcome(s) == s = 429 \/ IsServerError(s) \/ s = TransportFailure

\* the number of GETs among the first i events
GetsUpTo(i) == Cardinality({j \in GetIndices : j <= i})

\* C17: 429 responses share the attempt ceiling.  In an invocation whose GETs
\* met only 429, 5xx and transport failures each GET consumed exactly one
\* attempt and no more than MAX_RETRIES GETs were issued; every 429 is
\* followed by the advertised sleep and, before the ceiling, by the loop going
\* on to another GET; against a server answering only 429 safe_get never
\* returns and fails (RuntimeError) after exactly MAX_RETRIES GETs.
C17_RateLimitSharesCeiling ==
    LET st == GetStatuses
        mix == \A k \in 1..Len(st) : IsRetriedOutcome(st[k])
        only429 == \A k \in 1..Len(st) : st[k] = 429
    IN /\ mix => attempt = Len(st) /\ Len(st) <= MAX_RETRIES
       /\ only429 => pc # "get_returned"
       /\ (only429 /\ pc = "get_raised") => Len(st) = MAX_RETRIES /\ err = "RuntimeError"
       /\ \A i \in GetIndices :
             events[i].status = 429 =>
                /\ i < Len(events)
                /\ events[i + 1] = SleepEvent(Seconds(RetryAfterValue(events[i].hdr)))
                /\ (mix /\ GetsUpTo(i) < MAX_RETRIES) =>
                      /\ i + 1 = Len(events) => pc = "safe_get"
                      /\ i + 1 < Len(events) => events[i + 2].op = "get"

C17_Witness ==
    /\ MAX_RETRIES = 3
    /\ GetStatuses = <<429, 429, 429>>
    /\ Len(events) = 6
    /\ pc = "get_raised"
    /\ err = "RuntimeError"

\* ---- C18 ----
\* C18: between every two consecutive endpoints the run sleeps the polite
\* delay of one second: whenever the fetch of an endpoint other than the
\* first starts, the run's previous action was that sleep, whether the
\* earlier endpoint's fetch succeeded or failed.
C18_PoliteDelayBetweenEndpoints ==
    \A i \in 2..Len(runLog) :
        runLog[i].op = "fetch" =>
            /\ runLog[i - 1].op = "sleep"
            /\ runLog[i - 1].n = 1

\* ---- C19 ----
\* the count safe_insert_many returns for one call of insert_many
CountOfCall(c) ==
    IF c.outcome = "ok" THEN Len(c.docs)
    ELSE IF c.outcome = "bulk" THEN Cardinality(c.persisted)
    ELSE 0

\* the services found in the documents of the calls cs
ServicesInCalls(cs) ==
    UNION {{cs[c].docs[k].service : k \in 1..Len(cs[c].docs)} : c \in 1..Len(cs)}

\* C19: batches are never merged across endpoints.  Every call of insert_many
\* carries only records of the endpoint being processed, namely the valid
\* lines of that endpoint's own response; no earlier call carried records of
\* that endpoint (at most one call per endpoint); and the count returned is
\* that of this call alone, whatever earlier endpoints' inserts did.
C19_BatchesNeverMerged ==
    [][(insertCalls' # insertCalls) =>
          /\ Len(insertCalls') = Len(insertCalls) + 1
          /\ SubSeq(insertCalls', 1, Len(insertCalls)) = insertCalls
          /\ LET c == insertCalls'[Len(insertCalls')]
             IN /\ \A k \in 1..Len(c.docs) : c.docs[k].service = LIST_ENDPOINTS[epIdx]
                /\ LIST_ENDPOINTS[epIdx] \notin ServicesInCalls(insertCalls)
                /\ IpsOf(c.docs) = TokensOf(QualifyingLines(srcLines))
                /\ inserted' = CountOfCall(c)
                /\ epIdx' = epIdx]_vars

C19_Witness ==
    /\ pc = "done"
    /\ Len(insertCalls) = 2
    /\ insertCalls[1].outcome = "bulk"
    /\ Len(insertCalls[1].docs) = 2
    /\ insertCalls[1].persisted = {2}
    /\ insertCalls[2].outcome = "ok"
    /\ Len(insertCalls[2].docs) = 2
    /\ insertCalls[1].docs[1].service = "ssh"
    /\ insertCalls[2].docs[1].service = "mail"
    /\ total = 3

\* ---- C20 ----
\* C20: an invocation of safe_get that has failed has issued at least one GET,
\* for every MAX_RETRIES >= 0.
C20_FailsOnlyAfterAGet ==
    pc = "get_raised" => NumGets(events) >= 1

====
